---- MODULE Spec2Model ----
(***************************************************************************)
(* A model of microbmp.MicroBMP (src/microbmp/__init__.py): the image      *)
(* object, pixel access, header derivation, the uncompressed row codec,    *)
(* the RLE decoder and the read_io / write_io entry points, at the level   *)
(* of bytes.                                                               *)
(*                                                                         *)
(* Python values: an attribute that may hold None is an option, None being *)
(* the empty tuple and Some(v) the one-element tuple; bytes, bytearray and *)
(* list values are sequences of integers (1-based here, 0-based in the     *)
(* source); a raised exception is the "err" field of an operator's result, *)
(* "ok" when the call returned.                                            *)
(***************************************************************************)
EXTENDS Integers, Sequences, FiniteSets, TLC

VARIABLES
    img,      \* the MicroBMP object the caller holds
    sink,     \* the bytes the last write_io put into its (empty) sink
    res,      \* the outcome of the last call: which call, its error, its result
    saved,    \* the object as it was when the last write_io was entered
    built,    \* TRUE while img was made by the constructor and img[x,y]=v only
    nset,     \* the number of pixel accesses made on img so far
    back,     \* read_io of the written file by a new object
    twin,     \* read_io of the file's top-down twin by another new object
    lastset,  \* the latest pixel assignment that returned on img: key and value
    rle       \* the RLE decoder's frame: stream, position, cursor, outcome

vars == <<img, sink, res, saved, built, nset, back, twin, lastset, rle>>

----------------------------------------------------------------------------
(* Bounds of the model. *)

\* widths of constructed images are 1..MaxW
MaxW == 2
\* heights of constructed images are 1..MaxH
MaxH == 2
\* at most MaxSets pixel accesses img[x,y] are made on one object
MaxSets == 1
\* an RLE stream holds at most MaxRecs records
MaxRecs == 2

----------------------------------------------------------------------------
(* Python values. *)

None == <<>>
Some(v) == <<v>>
Val(o) == o[1]
IsNone(o) == o = <<>>

Zeros(n) == [i \in 1..n |-> 0]

\* the element of a set of one element: Only({F(x) : x \in {v}}) is F
\* applied to the value of v, v evaluated once
Only(S) == CHOOSE r \in S : TRUE

\* b"BM"
BM == <<66, 77>>

\* seq[i] of Python for a 0-based index i that may be negative: an IndexError
\* outside -len..len-1, a TypeError when seq is None.
PyAt(seqopt, i) ==
    IF IsNone(seqopt) THEN [err |-> "TypeError", val |-> 0]
    ELSE LET s == Val(seqopt) IN
         IF i >= 0 /\ i < Len(s) THEN [err |-> "ok", val |-> s[i + 1]]
         ELSE IF i < 0 /\ i >= -Len(s) THEN [err |-> "ok", val |-> s[Len(s) + i + 1]]
         ELSE [err |-> "IndexError", val |-> 0]

\* the 1-based position seq[i] of Python names, for an index PyAt accepts
PyPos(s, i) == IF i >= 0 THEN i + 1 ELSE Len(s) + i + 1

\* bf_io.read(n) at position pos of data: at most n bytes, fewer at the end
Read(data, pos, n) ==
    LET m == IF n < 0 THEN Len(data) - pos
             ELSE IF pos + n > Len(data) THEN Len(data) - pos ELSE n
    IN [bytes |-> SubSeq(data, pos + 1, pos + m), pos |-> pos + m]

\* data[a:b] of Python for 0 <= a <= b
Slice(data, a, b) ==
    LET hi == IF b > Len(data) THEN Len(data) ELSE b
    IN IF a >= hi THEN <<>> ELSE SubSeq(data, a + 1, hi)

----------------------------------------------------------------------------
(* struct.pack / struct.unpack, little-endian. *)

\* pack("<I", n) and pack("<i", n): the four bytes of n, two's complement
Pack32(n) ==
    << n % 256, (n \div 256) % 256, (n \div 65536) % 256, (n \div 16777216) % 256 >>

\* pack("<H", n)
Pack16(n) == << n % 256, (n \div 256) % 256 >>

\* unpack("<I", b)[0] of four bytes (values below 2^31 in this model)
UnpackU32(b) == b[1] + 256 * b[2] + 65536 * b[3] + 16777216 * b[4]

\* unpack("<i", b)[0] of four bytes
UnpackI32(b) ==
    b[1] + 256 * b[2] + 65536 * b[3]
      + 16777216 * (IF b[4] >= 128 THEN b[4] - 256 ELSE b[4])

\* unpack("<H", b)[0] of two bytes
UnpackU16(b) == b[1] + 256 * b[2]

----------------------------------------------------------------------------
(* The object: MicroBMP.__init__ before its call of _init. *)

NewObject(width, height, depth, palette) ==
    [ BMP_id |-> BM, BMP_size |-> None,
      BMP_reserved1 |-> <<0, 0>>, BMP_reserved2 |-> <<0, 0>>,
      BMP_offset |-> None,
      DIB_len |-> 40, DIB_w |-> width, DIB_h |-> height,
      DIB_planes_num |-> 1, DIB_depth |-> depth, DIB_comp |-> 0,
      DIB_raw_size |-> None, DIB_hres |-> 2835, DIB_vres |-> 2835,
      DIB_num_in_plt |-> None, DIB_extra |-> None,
      palette |-> palette, parray |-> None,
      ppb |-> None, pmask |-> None,
      row_size |-> None, padded_row_size |-> None,
      initialised |-> FALSE ]

\* _size_from_width(width), with the object's depth
_size_from_width(self, width) == (width * Val(self.DIB_depth) + 7) \div 8

\* _padded_size_from_size(size)
_padded_size_from_size(size) == ((size + 3) \div 4) * 4

\* the default palette: grey level 255*i // (n-1) for i = 0..n-1
DefaultPalette(n) ==
    [k \in 1..n |-> LET s == (255 * (k - 1)) \div (n - 1) IN <<s, s, s>>]

\* the legal depth + compression pairs
CompOk(depth, comp) ==
    \/ comp = 0
    \/ (depth = 8 /\ comp = 1)
    \/ (depth = 4 /\ comp = 2)

\* a faulty check of the colour depth, used to test the statements about
\* validation: a range test in place of the list of legal depths
DepthOkRange(depth) == depth >= 1 /\ depth <= 24

\* the legal colour depths
DepthOk(depth) == depth \in {1, 2, 4, 8, 24}

\* _init, after its assertions: palette, masks, plane, derived sizes
InitDerive(self) ==
    LET depth == Val(self.DIB_depth)
        w == Val(self.DIB_w)
        h == Val(self.DIB_h)
        ppb == IF depth <= 8 THEN Some(8 \div depth) ELSE None
        pmask == IF depth <= 8 THEN Some(255 \div (2 ^ (8 - depth))) ELSE None
        palette == IF depth <= 8
                   THEN IF IsNone(self.palette)
                        THEN Some(DefaultPalette(2 ^ depth)) ELSE self.palette
                   ELSE None
        num == IF depth <= 8
               THEN IF IsNone(self.palette) THEN 2 ^ depth ELSE Len(Val(self.palette))
               ELSE 0
        size == IF depth <= 8
                THEN ((w * h) \div (8 \div depth))
                       + (IF (w * h) % (8 \div depth) # 0 THEN 1 ELSE 0)
                ELSE w * h * 3
        offset == 14 + self.DIB_len + num * 4
        padded == _padded_size_from_size(_size_from_width(self, w))
    IN IF IsNone(self.parray) /\ size < 0
       THEN [err |-> "ValueError", ret |-> FALSE,
             self |-> [self EXCEPT !.ppb = ppb, !.pmask = pmask,
                                   !.DIB_num_in_plt = Some(num),
                                   !.palette = palette]]
       ELSE [err |-> "ok", ret |-> TRUE,
             self |-> [self EXCEPT
                         !.ppb = ppb, !.pmask = pmask,
                         !.DIB_num_in_plt = Some(num), !.palette = palette,
                         !.parray = IF IsNone(@) THEN Some(Zeros(size)) ELSE @,
                         !.BMP_offset = Some(offset),
                         !.row_size = Some(_size_from_width(self, w)),
                         !.padded_row_size = Some(padded),
                         !.DIB_raw_size = IF self.DIB_comp = 0
                                          THEN Some(padded * h) ELSE @,
                         !.BMP_size = IF self.DIB_comp = 0
                                      THEN Some(offset + padded * h) ELSE @,
                         !.initialised = TRUE]]

\* _init: validation of the header fields, then the derivation
_init(self) ==
    IF IsNone(self.DIB_w) \/ IsNone(self.DIB_h) \/ IsNone(self.DIB_depth)
    THEN [err |-> "ok", ret |-> FALSE, self |-> [self EXCEPT !.initialised = FALSE]]
    ELSE IF self.BMP_id # BM
    THEN [err |-> "AssertionError", ret |-> FALSE, self |-> self]
    ELSE IF ~(Len(self.BMP_reserved1) = 2 /\ Len(self.BMP_reserved2) = 2)
    THEN [err |-> "AssertionError", ret |-> FALSE, self |-> self]
    ELSE IF self.DIB_planes_num # 1
    THEN [err |-> "AssertionError", ret |-> FALSE, self |-> self]
    ELSE IF ~DepthOk(Val(self.DIB_depth))
    THEN [err |-> "AssertionError", ret |-> FALSE, self |-> self]
    ELSE IF ~CompOk(Val(self.DIB_depth), self.DIB_comp)
    THEN [err |-> "AssertionError", ret |-> FALSE, self |-> self]
    ELSE InitDerive(self)

----------------------------------------------------------------------------
(* Pixel access. *)

\* _extract_from_bytes(data, index): the index-th depth-bit field of data,
\* counted from the most significant bits of each byte
_extract_from_bytes(self, data, index) ==
    IF IsNone(self.ppb) THEN [err |-> "TypeError", val |-> 0]
    ELSE LET byte_index == index \div Val(self.ppb)
             pos_in_byte == index % Val(self.ppb)
             shift == 8 - Val(self.DIB_depth) * (pos_in_byte + 1)
             at == PyAt(data, byte_index)
         IN IF at.err # "ok" THEN [err |-> at.err, val |-> 0]
            ELSE IF shift < 0 THEN [err |-> "ValueError", val |-> 0]
            ELSE [err |-> "ok",
                  val |-> (at.val \div (2 ^ shift)) % (Val(self.pmask) + 1)]

\* the byte _fill_in_bytes stores: old with the field at shift replaced by
\* value & pmask
FilledByte(old, pmask, shift, value) ==
    (old - ((old \div (2 ^ shift)) % (pmask + 1)) * (2 ^ shift))
      + (value % (pmask + 1)) * (2 ^ shift)

\* _fill_in_bytes(data, index, value): data with the index-th field set
_fill_in_bytes(self, data, index, value) ==
    IF IsNone(self.ppb) THEN [err |-> "TypeError", data |-> data]
    ELSE LET byte_index == index \div Val(self.ppb)
             pos_in_byte == index % Val(self.ppb)
             shift == 8 - Val(self.DIB_depth) * (pos_in_byte + 1)
             at == PyAt(data, byte_index)
         IN IF at.err # "ok" THEN [err |-> at.err, data |-> data]
            ELSE IF shift < 0 THEN [err |-> "ValueError", data |-> data]
            ELSE LET new == FilledByte(at.val, Val(self.pmask), shift, value)
                 IN IF new > 255 THEN [err |-> "ValueError", data |-> data]
                    ELSE [err |-> "ok",
                          data |-> Some([Val(data) EXCEPT
                                           ![PyPos(Val(data), byte_index)] = new])]

\* the assertion that opens __getitem__ and __setitem__
InBoundary(self, key) == key[1] < Val(self.DIB_w) /\ key[2] < Val(self.DIB_h)

\* __getitem__(key): key is <<x, y>> or <<x, y, c>>
getitem(self, key) ==
    IF ~self.initialised THEN [err |-> "AssertionError", val |-> 0]
    ELSE IF ~InBoundary(self, key) THEN [err |-> "AssertionError", val |-> 0]
    ELSE LET pindex == key[2] * Val(self.DIB_w) + key[1] IN
         IF Val(self.DIB_depth) <= 8
         THEN _extract_from_bytes(self, self.parray, pindex)
         ELSE LET p == pindex * 3 IN
              IF Len(key) > 2 /\ key[3] \in {0, 1, 2}
              THEN PyAt(self.parray, p + key[3])
              ELSE LET r == PyAt(self.parray, p)
                       g == PyAt(self.parray, p + 1)
                       b == PyAt(self.parray, p + 2)
                   IN IF r.err # "ok" THEN r
                      ELSE IF g.err # "ok" THEN g
                      ELSE IF b.err # "ok" THEN b
                      ELSE [err |-> "ok", val |-> <<r.val, g.val, b.val>>]

\* parray[i] = v
SetByte(data, i, v) ==
    LET at == PyAt(data, i)
    IN IF at.err # "ok" THEN [err |-> at.err, data |-> data]
       ELSE [err |-> "ok",
             data |-> Some([Val(data) EXCEPT ![PyPos(Val(data), i)] = v])]

\* __setitem__(key, value): key is <<x, y>> or <<x, y, c>>
setitem(self, key, value) ==
    IF ~self.initialised THEN [err |-> "AssertionError", self |-> self]
    ELSE IF ~InBoundary(self, key) THEN [err |-> "AssertionError", self |-> self]
    ELSE LET pindex == key[2] * Val(self.DIB_w) + key[1] IN
         IF Val(self.DIB_depth) <= 8
         THEN LET f == _fill_in_bytes(self, self.parray, pindex, value)
              IN [err |-> f.err, self |-> [self EXCEPT !.parray = f.data]]
         ELSE LET p == pindex * 3 IN
              IF Len(key) > 2 /\ key[3] \in {0, 1, 2}
              THEN LET c == SetByte(self.parray, p + key[3], value)
                   IN [err |-> c.err, self |-> [self EXCEPT !.parray = c.data]]
              ELSE LET r == SetByte(self.parray, p, value[1])
                       g == SetByte(r.data, p + 1, value[2])
                       b == SetByte(g.data, p + 2, value[3])
                   IN IF r.err # "ok"
                      THEN [err |-> r.err, self |-> self]
                      ELSE IF g.err # "ok"
                      THEN [err |-> g.err, self |-> [self EXCEPT !.parray = r.data]]
                      ELSE [err |-> b.err, self |-> [self EXCEPT !.parray = b.data]]

----------------------------------------------------------------------------
(* write_io. *)

\* a faulty reduction, used to test the statements about indices at or
\* above the palette length: the index is stored back as it is
ReducedIndexRaw(v, num_in_plt) == v

\* self[x, y] %= self.DIB_num_in_plt: the index write_io stores back
ReducedIndex(v, num_in_plt) == v % num_in_plt

\* a faulty shift, used to test the round trip: the last byte is shifted
\* as if it held one pixel, whatever the number of pixels it holds
LastByteShiftOnePixel(depth, x, ppb) == 8 - depth

\* the left shift of the last, partly filled byte of an indexed row whose
\* last pixel is x
LastByteShift(depth, x, ppb) == 8 - depth - (x % ppb) * (2 ^ (depth - 1))

RECURSIVE WriteIndexedRow(_, _, _, _, _)
\* the loop over x of one indexed row y: each index is reduced modulo the
\* palette length in the plane, then packed; d is the byte being assembled.
\* g is self[x, y], s the object after self[x, y] %= DIB_num_in_plt, v the
\* index read back
WriteIndexedRow(self, y, x, d, out) ==
    IF x >= Val(self.DIB_w)
    THEN [err |-> "ok", self |-> self, d |-> d, out |-> out]
    ELSE
    LET Packed(s, v) ==
            LET d2 == d * (2 ^ (Val(self.DIB_depth) % 8)) + v.val
                ppb == Val(self.ppb)
            IN IF v.err # "ok"
               THEN [err |-> v.err, self |-> s.self, d |-> d, out |-> out]
               ELSE IF x % ppb = ppb - 1
               THEN IF d2 > 255
                    THEN [err |-> "ValueError", self |-> s.self,
                          d |-> d2, out |-> out]
                    ELSE WriteIndexedRow(s.self, y, x + 1, 0, Append(out, d2))
               ELSE WriteIndexedRow(s.self, y, x + 1, d2, out)
        Stored(s) ==
            IF s.err # "ok"
            THEN [err |-> s.err, self |-> s.self, d |-> d, out |-> out]
            ELSE Packed(s, getitem(s.self, <<x, y>>))
        Reduced(g) ==
            IF g.err # "ok"
            THEN [err |-> g.err, self |-> self, d |-> d, out |-> out]
            ELSE IF Val(self.DIB_num_in_plt) = 0
            THEN [err |-> "ZeroDivisionError", self |-> self, d |-> d, out |-> out]
            ELSE Stored(setitem(self, <<x, y>>,
                                ReducedIndex(g.val, Val(self.DIB_num_in_plt))))
    IN Reduced(getitem(self, <<x, y>>))

RECURSIVE WriteRgbRow(_, _, _, _)
\* the loop over x of one 24-bit row y: each pixel g is written B, G, R
WriteRgbRow(self, y, x, out) ==
    IF x >= Val(self.DIB_w) THEN [err |-> "ok", self |-> self, out |-> out]
    ELSE
    LET Put(g) ==
            IF g.err # "ok" THEN [err |-> g.err, self |-> self, out |-> out]
            ELSE WriteRgbRow(self, y, x + 1,
                             out \o <<g.val[3], g.val[2], g.val[1]>>)
    IN Put(getitem(self, <<x, y>>))

\* one row of write_io's pixel loop, with its padding; r is the outcome of
\* the loop over x
WriteRow(self, y, out) ==
    LET w == Val(self.DIB_w)
        padding == Zeros(Val(self.padded_row_size) - Val(self.row_size))
        Indexed(r) ==
            IF r.err # "ok" THEN [err |-> r.err, self |-> r.self, out |-> r.out]
            ELSE IF w <= 0
            THEN [err |-> "UnboundLocalError", self |-> r.self, out |-> r.out]
            ELSE LET x == w - 1
                     ppb == Val(self.ppb)
                 IN IF x % ppb # ppb - 1
                    THEN LET d == r.d * (2 ^ LastByteShift(Val(self.DIB_depth), x, ppb))
                         IN IF d > 255
                            THEN [err |-> "ValueError", self |-> r.self, out |-> r.out]
                            ELSE [err |-> "ok", self |-> r.self,
                                  out |-> Append(r.out, d) \o padding]
                    ELSE [err |-> "ok", self |-> r.self, out |-> r.out \o padding]
        Rgb(r) ==
            IF r.err # "ok" THEN r
            ELSE [err |-> "ok", self |-> r.self, out |-> r.out \o padding]
    IN IF Val(self.DIB_depth) <= 8
       THEN Indexed(WriteIndexedRow(self, y, 0, 0, out))
       ELSE Rgb(WriteRgbRow(self, y, 0, out))

RECURSIVE WriteRows(_, _, _)
\* write_io's loop over h: the last row of the image comes first
WriteRows(self, h, out) ==
    IF h >= Val(self.DIB_h) THEN [err |-> "ok", self |-> self, out |-> out]
    ELSE LET Rest(r) == IF r.err # "ok" THEN r ELSE WriteRows(r.self, h + 1, r.out)
         IN Rest(WriteRow(self, Val(self.DIB_h) - h - 1, out))

\* the number of entries at the head of the palette list that hold a colour
\* (an entry is <<r, g, b>>, or None where read_io left it unset)
ColoursBeforeNone(palette) ==
    LET unset == {i \in 1..Len(palette) : IsNone(palette[i])}
    IN IF unset = {} THEN Len(palette)
       ELSE (CHOOSE i \in unset : \A j \in unset : i <= j) - 1

\* write_io's loop over the palette: each colour is written B, G, R, 0; an
\* entry that is None raises, after the entries before it were written
WritePalette(palette, out) ==
    LET n == ColoursBeforeNone(palette)
        block == [k \in 1..(4 * n) |->
                    IF (k - 1) % 4 = 3 THEN 0
                    ELSE palette[((k - 1) \div 4) + 1][3 - ((k - 1) % 4)]]
    IN [err |-> IF n < Len(palette) THEN "TypeError" ELSE "ok",
        out |-> out \o block]

\* the file header and the first 40 bytes of the DIB header, as write_io
\* packs and writes them after _init: pack("<I", v) raises for a negative v,
\* after the fields before it were written
HeaderBytes(self) ==
    LET id == self.BMP_id
        upto_offset == id \o Pack32(Val(self.BMP_size))
                          \o self.BMP_reserved1 \o self.BMP_reserved2
        file_header == upto_offset \o Pack32(Val(self.BMP_offset))
    IN IF Val(self.BMP_size) < 0 THEN [err |-> "struct.error", out |-> id]
       ELSE IF Val(self.BMP_offset) < 0
       THEN [err |-> "struct.error", out |-> upto_offset]
       ELSE IF self.DIB_len < 0 \/ Val(self.DIB_raw_size) < 0
               \/ Val(self.DIB_num_in_plt) < 0
       THEN [err |-> "struct.error", out |-> file_header]
       ELSE [err |-> "ok",
             out |-> file_header
               \o Pack32(self.DIB_len) \o Pack32(Val(self.DIB_w))
               \o Pack32(Val(self.DIB_h))
               \o Pack16(self.DIB_planes_num) \o Pack16(Val(self.DIB_depth))
               \o Pack32(self.DIB_comp) \o Pack32(Val(self.DIB_raw_size))
               \o Pack32(self.DIB_hres) \o Pack32(self.DIB_vres)
               \o Pack32(Val(self.DIB_num_in_plt))
               \o Pack32(Val(self.DIB_num_in_plt))]

\* write_io after _init returned i: the headers, the palette, the pixels
WriteFile(i) ==
    IF i.err # "ok"
    THEN [err |-> i.err, self |-> i.self, out |-> <<>>, ret |-> None]
    ELSE IF ~i.ret
    THEN [err |-> "AssertionError", self |-> i.self, out |-> <<>>, ret |-> None]
    ELSE
    LET self == i.self
        packed == HeaderBytes(self)
        hdr == packed.out
        dib == IF self.DIB_len > 40 /\ ~IsNone(self.DIB_extra)
               THEN hdr \o Val(self.DIB_extra) ELSE hdr
        plt == IF Val(self.DIB_depth) <= 8
               THEN WritePalette(Val(self.palette), dib)
               ELSE [err |-> "ok", out |-> dib]
        Tell(rows) ==
            IF rows.err # "ok"
            THEN [err |-> rows.err, self |-> rows.self,
                  out |-> rows.out, ret |-> None]
            ELSE [err |-> "ok", self |-> rows.self,
                  out |-> rows.out, ret |-> Some(Len(rows.out))]
    IN IF packed.err # "ok"
       THEN [err |-> packed.err, self |-> self, out |-> hdr, ret |-> None]
       ELSE IF self.DIB_len > 40 /\ IsNone(self.DIB_extra)
       THEN [err |-> "TypeError", self |-> self, out |-> hdr, ret |-> None]
       ELSE IF plt.err # "ok"
       THEN [err |-> plt.err, self |-> self, out |-> plt.out, ret |-> None]
       ELSE Tell(WriteRows(self, 0, plt.out))

\* write_io(bf_io, force_40B_DIB) into an empty sink: out is what the sink
\* holds when the call ends, ret the value returned (bf_io.tell())
write_io(self0, force_40B_DIB) ==
    WriteFile(_init([(IF force_40B_DIB
                      THEN [self0 EXCEPT !.DIB_len = 40, !.DIB_extra = None]
                      ELSE self0)
                     EXCEPT !.DIB_comp = 0]))

----------------------------------------------------------------------------
(* _decode_rle: one frame of the loop, and the loop. *)

\* the decoder's frame when _decode_rle is entered on data at pos
RleStart(self, data, pos) ==
    [ data |-> data, pos |-> pos, x |-> 0, y |-> Val(self.DIB_h) - 1,
      pc |-> "run", err |-> "ok", rec |-> "none" ]

\* a faulty index, used to test the statement about encoded runs: pixel i
\* takes field i, as in an absolute run
RunIndexPlain(i, ppb) == i

\* the field of the pattern byte that pixel i of an encoded run takes
RunIndex(i, ppb) == i % ppb

RECURSIVE RlePixels(_, _, _, _, _, _)
\* the two pixel loops of _decode_rle: n pixels from buf written at the
\* advancing cursor of frame f, pixel i taken at index i (absolute run) or
\* at index i mod ppb (encoded run); e is the pixel extracted, s the
\* outcome of self[x, y] = e
RlePixels(self, f, buf, modular, i, n) ==
    IF i >= n THEN [self |-> self, f |-> f]
    ELSE
    LET Raised(o, err) ==
            [self |-> o, f |-> [f EXCEPT !.pc = "error", !.err = err]]
        Set(s) ==
            IF s.err # "ok" THEN Raised(s.self, s.err)
            ELSE RlePixels(s.self, [f EXCEPT !.x = f.x + 1], buf, modular, i + 1, n)
        Got(e) ==
            IF e.err # "ok" THEN Raised(self, e.err)
            ELSE Only({Set(s) : s \in {setitem(self, <<f.x, f.y>>, e.val)}})
    IN Got(_extract_from_bytes(self, Some(buf),
                               IF modular THEN RunIndex(i, Val(self.ppb)) ELSE i))

\* a faulty classification, used to test the statement about the ways the
\* decoder stops: the record 0,0 is taken for the end of the bitmap
KindOfEolAsEob(d) ==
    IF Len(d) < 2 THEN "short"
    ELSE IF d[1] # 0 THEN "run"
    ELSE IF d[2] <= 1 THEN "eob"
    ELSE IF d[2] = 2 THEN "delta"
    ELSE "abs"

\* the kind of the record whose first two bytes are d
KindOf(d) ==
    IF Len(d) < 2 THEN "short"
    ELSE IF d[1] # 0 THEN "run"
    ELSE IF d[2] = 0 THEN "eol"
    ELSE IF d[2] = 1 THEN "eob"
    ELSE IF d[2] = 2 THEN "delta"
    ELSE "abs"

\* the kind of the record at the frame's position
RleKind(f) == KindOf(Read(f.data, f.pos, 2).bytes)

\* one pass of the body of _decode_rle's while loop: rd is the read of the
\* record's two bytes, r2 the read that follows them in a delta and in an
\* absolute run
RleStep(self, f) ==
    LET Record(rd) ==
            LET d == rd.bytes
                kind == KindOf(d)
                g == [f EXCEPT !.pos = rd.pos, !.rec = kind]
                Follow(r2) ==
                    IF kind = "abs"
                    THEN RlePixels(self, [g EXCEPT !.pos = r2.pos], r2.bytes,
                                   FALSE, 0, d[2])
                    ELSE IF Len(r2.bytes) < 2
                    THEN [self |-> self,
                          f |-> [g EXCEPT !.pos = r2.pos, !.pc = "error",
                                          !.err = "IndexError"]]
                    ELSE [self |-> self,
                          f |-> [g EXCEPT !.pos = r2.pos, !.x = f.x + r2.bytes[1],
                                          !.y = f.y - r2.bytes[2]]]
            IN IF kind = "short"
               THEN [self |-> self,
                     f |-> [g EXCEPT !.pc = "error", !.err = "IndexError"]]
               ELSE IF kind = "eol"
               THEN [self |-> self, f |-> [g EXCEPT !.x = 0, !.y = f.y - 1]]
               ELSE IF kind = "eob"
               THEN [self |-> self, f |-> [g EXCEPT !.pc = "done"]]
               ELSE IF kind = "delta"
               THEN Only({Follow(r2) : r2 \in {Read(f.data, rd.pos, 2)}})
               ELSE IF kind = "abs"
               THEN Only({Follow(r2) : r2 \in
                            {Read(f.data, rd.pos,
                                  ((_size_from_width(self, d[2]) + 1) \div 2) * 2)}})
               ELSE RlePixels(self, g, <<d[2]>>, TRUE, 0, d[1])
    IN Only({Record(rd) : rd \in {Read(f.data, f.pos, 2)}})

RECURSIVE _decode_rle(_, _)
\* _decode_rle(bf_io): the loop run until it returns or raises
_decode_rle(self, f) ==
    IF f.pc # "run" THEN [self |-> self, f |-> f]
    ELSE LET Loop(n) == _decode_rle(n.self, n.f) IN Loop(RleStep(self, f))

----------------------------------------------------------------------------
(* read_io. *)

\* read_io's loop over the palette entries: each is read(4), stored R, G, B
\* from bytes 2, 1, 0; a read that yields fewer than three bytes raises,
\* after the entries before it were stored
ReadPalette(self, data, pos) ==
    LET n == Val(self.DIB_num_in_plt)
        left == Len(data) - pos
        whole == IF left >= 3 THEN ((left - 3) \div 4) + 1 ELSE 0
        got == IF whole < n THEN whole ELSE n
        colour(i) == <<data[pos + 4 * i + 3], data[pos + 4 * i + 2],
                       data[pos + 4 * i + 1]>>
        end == IF pos + 4 * n > Len(data) \/ got < n THEN Len(data) ELSE pos + 4 * n
    IN [err |-> IF got < n THEN "IndexError" ELSE "ok",
        self |-> [self EXCEPT !.palette =
                     Some([k \in 1..n |-> IF k <= got THEN colour(k - 1) ELSE None])],
        pos |-> end]

RECURSIVE ReadRowPixels(_, _, _, _)
\* read_io's loop over x of one uncompressed row held in buf; e is the index
\* extracted, s the outcome of self[x, y] = ...
ReadRowPixels(self, buf, y, x) ==
    IF x >= Val(self.DIB_w) THEN [err |-> "ok", self |-> self]
    ELSE
    LET Set(s) == IF s.err # "ok" THEN s ELSE ReadRowPixels(s.self, buf, y, x + 1)
        Got(e) == IF e.err # "ok" THEN [err |-> e.err, self |-> self]
                  ELSE Set(setitem(self, <<x, y>>, e.val))
    IN IF Val(self.DIB_depth) <= 8
       THEN Got(_extract_from_bytes(self, Some(buf), x))
       ELSE LET v == x * 3 IN
            IF v + 2 >= Len(buf) THEN [err |-> "IndexError", self |-> self]
            ELSE Set(setitem(self, <<x, y>>, <<buf[v + 3], buf[v + 2], buf[v + 1]>>))

\* a faulty row order, used to test the statement about top-down files:
\* the sign of the height is ignored
RowOfFileBottomUp(h, height, is_top_down) == height - h - 1

\* the row of the plane that the h-th row of the file is stored into
RowOfFile(h, height, is_top_down) == IF is_top_down THEN h ELSE height - h - 1

RECURSIVE ReadRows(_, _, _, _, _)
\* read_io's loop over h of the uncompressed rows; rd is the read of one
\* padded row, r the outcome of the loop over x
ReadRows(self, data, pos, h, is_top_down) ==
    IF h >= Val(self.DIB_h) THEN [err |-> "ok", self |-> self, pos |-> pos]
    ELSE
    LET rd == Read(data, pos, Val(self.padded_row_size))
        Row(r) ==
            IF r.err # "ok" THEN [err |-> r.err, self |-> r.self, pos |-> rd.pos]
            ELSE ReadRows(r.self, data, rd.pos, h + 1, is_top_down)
    IN Row(ReadRowPixels(self, rd.bytes,
                         RowOfFile(h, Val(self.DIB_h), is_top_down), 0))

\* read_io after _init returned i: the pixel rows, or the compressed stream
ReadPixels(i, data, pos, is_top_down) ==
    LET Plain(r) ==
            [err |-> r.err, self |-> r.self, pos |-> r.pos, stage |-> "pixels"]
        Rle(r) ==
            [err |-> r.f.err, self |-> r.self, pos |-> r.f.pos, stage |-> "pixels"]
    IN IF i.err # "ok" \/ ~i.ret
       THEN [err |-> IF i.err # "ok" THEN i.err ELSE "AssertionError",
             self |-> i.self, pos |-> pos, stage |-> "init"]
       ELSE IF i.self.DIB_comp = 0
       THEN Plain(ReadRows(i.self, data, pos, 0, is_top_down))
       ELSE Rle(_decode_rle(i.self, RleStart(i.self, data, pos)))

\* read_io from the palette on: palette, height sign, _init, pixels; plt is
\* the outcome of the palette loop
ReadBody(self0, data, pos0, DIB_plt_num_info) ==
    LET depth == Val(self0.DIB_depth)
        num == IF DIB_plt_num_info = 0 THEN 2 ^ depth ELSE DIB_plt_num_info
        plt == IF depth <= 8
               THEN ReadPalette([self0 EXCEPT !.DIB_num_in_plt = Some(num),
                                              !.palette = Some([k \in 1..num |-> None])],
                                data, pos0)
               ELSE [err |-> "ok", self |-> self0, pos |-> pos0]
        is_top_down == Val(plt.self.DIB_h) < 0
    IN IF plt.err # "ok"
       THEN [err |-> plt.err, self |-> plt.self, pos |-> plt.pos, stage |-> "palette"]
       ELSE ReadPixels(_init([plt.self EXCEPT
                                !.DIB_h = IF is_top_down THEN Some(-Val(@)) ELSE @,
                                !.parray = None]),
                       data, plt.pos, is_top_down)

\* read_io(bf_io) on a source holding data: the object afterwards, the
\* position reached in the source, and the part of read_io that ended it.
\* h is the read of the file header, l the read of DIB_len, d the read of the
\* rest of the DIB header
read_io(self0, data) ==
    LET h == Read(data, 0, 14)
        b == h.bytes
        l == Read(data, h.pos, 4)
        DIB_len == UnpackU32(l.bytes)
        d == Read(data, l.pos, DIB_len - 4)
        x == d.bytes
        s0 == [self0 EXCEPT !.BMP_id = Slice(b, 0, 2)]
        s1 == [s0 EXCEPT !.BMP_size = Some(UnpackU32(Slice(b, 2, 6))),
                         !.BMP_reserved1 = Slice(b, 6, 8),
                         !.BMP_reserved2 = Slice(b, 8, 10)]
        s2 == [s1 EXCEPT !.BMP_offset = Some(UnpackU32(Slice(b, 10, 14)))]
    IN IF Len(b) < 6
       THEN [err |-> "struct.error", pos |-> h.pos, stage |-> "header", self |-> s0]
       ELSE IF Len(b) < 14
       THEN [err |-> "struct.error", pos |-> h.pos, stage |-> "header", self |-> s1]
       ELSE IF Len(l.bytes) < 4
       THEN [err |-> "struct.error", pos |-> l.pos, stage |-> "header", self |-> s2]
       ELSE IF Len(x) < 28
       THEN [err |-> "struct.error", pos |-> d.pos, stage |-> "header",
             self |-> [s2 EXCEPT !.DIB_len = DIB_len]]
       ELSE IF Len(x) < 36
       THEN [err |-> "struct.error", pos |-> d.pos, stage |-> "header",
             self |-> [s2 EXCEPT
                         !.DIB_len = DIB_len,
                         !.DIB_w = Some(UnpackI32(Slice(x, 0, 4))),
                         !.DIB_h = Some(UnpackI32(Slice(x, 4, 8))),
                         !.DIB_planes_num = UnpackU16(Slice(x, 8, 10)),
                         !.DIB_depth = Some(UnpackU16(Slice(x, 10, 12))),
                         !.DIB_comp = UnpackU32(Slice(x, 12, 16)),
                         !.DIB_raw_size = Some(UnpackU32(Slice(x, 16, 20))),
                         !.DIB_hres = UnpackI32(Slice(x, 20, 24)),
                         !.DIB_vres = UnpackI32(Slice(x, 24, 28))]]
       ELSE ReadBody([s2 EXCEPT
                        !.DIB_len = DIB_len,
                        !.DIB_w = Some(UnpackI32(Slice(x, 0, 4))),
                        !.DIB_h = Some(UnpackI32(Slice(x, 4, 8))),
                        !.DIB_planes_num = UnpackU16(Slice(x, 8, 10)),
                        !.DIB_depth = Some(UnpackU16(Slice(x, 10, 12))),
                        !.DIB_comp = UnpackU32(Slice(x, 12, 16)),
                        !.DIB_raw_size = Some(UnpackU32(Slice(x, 16, 20))),
                        !.DIB_hres = UnpackI32(Slice(x, 20, 24)),
                        !.DIB_vres = UnpackI32(Slice(x, 24, 28)),
                        !.DIB_extra = IF DIB_len > 40
                                      THEN Some(Slice(x, 36, Len(x))) ELSE @],
                     data, d.pos, UnpackU32(Slice(x, 28, 32)))

----------------------------------------------------------------------------
(* The caller: construction, pixel access, write_io, and reading the file  *)
(* back.                                                                   *)

\* MicroBMP(): no width, height or depth, so _init leaves it uninitialised
MicroBMP == _init(NewObject(None, None, None, None)).self

\* a caller-supplied palette of three colours
Pal3 == << <<10, 20, 30>>, <<40, 50, 60>>, <<70, 80, 90>> >>

\* the depth and palette arguments the caller passes: every legal depth,
\* with the default palette, with three colours or with an empty list, and
\* the depth 3
Args ==
    { <<1, None>>, <<2, Some(Pal3)>>, <<4, None>>, <<8, Some(Pal3)>>,
      <<8, Some(<<>>)>>, <<24, None>>, <<3, None>> }

\* the values the caller assigns to a pixel of an indexed image
IndexValues == {1, 3, 4}

\* the coordinates inside the image
Inside(self) ==
    IF self.initialised
    THEN (0..(Val(self.DIB_w) - 1)) \X (0..(Val(self.DIB_h) - 1)) ELSE {}

\* the coordinates the caller uses: inside the image and around it
Around == (-1..MaxW) \X (-1..MaxH)

\* the values of the caller's pixel assignments img[x, y] = value
Values(self) ==
    IF self.initialised /\ Val(self.DIB_depth) > 8
    THEN {<<11, 22, 33>>} ELSE IndexValues

NoRes == [op |-> "none", err |-> "ok", key |-> <<>>, val |-> None,
          pos |-> 0, stage |-> "none"]

NoLoad == [err |-> "none", self |-> MicroBMP, pos |-> 0, stage |-> "none"]

NoSet == [key |-> <<>>, value |-> None]

NoRle == [data |-> <<>>, pos |-> 0, x |-> 0, y |-> 0,
          pc |-> "idle", err |-> "ok", rec |-> "none"]

Init ==
    /\ img = MicroBMP
    /\ sink = <<>>
    /\ res = NoRes
    /\ saved = MicroBMP
    /\ built = FALSE
    /\ nset = 0
    /\ back = NoLoad
    /\ twin = NoLoad
    /\ lastset = NoSet
    /\ rle = NoRle

\* img = MicroBMP(width, height, depth, palette), the first call of a run;
\* when the constructor raises, the caller keeps the object it had
New(width, height, depth, palette) ==
    /\ res.op \in {"none", "new"}
    /\ ~built
    /\ LET Done(i) ==
               /\ img' = IF i.err = "ok" THEN i.self ELSE img
               /\ built' = IF i.err = "ok" THEN TRUE ELSE built
               /\ res' = [NoRes EXCEPT !.op = "new", !.err = i.err, !.val = Some(depth)]
       IN Done(_init(NewObject(Some(width), Some(height), Some(depth), palette)))
    /\ UNCHANGED <<sink, saved, nset, back, twin, lastset, rle>>

\* img[key] = value, while the image is being built
SetItem(key, value) ==
    /\ nset < MaxSets
    /\ res.op \in {"new", "setitem", "getitem"}
    /\ LET Done(s) ==
               /\ img' = s.self
               /\ res' = [NoRes EXCEPT !.op = "setitem", !.err = s.err,
                                       !.key = key, !.val = Some(value)]
               /\ lastset' = IF s.err = "ok"
                             THEN [key |-> key, value |-> Some(value)] ELSE lastset
       IN Done(setitem(img, key, value))
    /\ nset' = nset + 1
    /\ UNCHANGED <<sink, saved, built, back, twin, rle>>

\* img[key], while the image is being built
GetItem(key) ==
    /\ nset < MaxSets
    /\ res.op \in {"new", "setitem", "getitem"}
    /\ LET Done(g) ==
               res' = [NoRes EXCEPT !.op = "getitem", !.err = g.err, !.key = key,
                                    !.val = IF g.err = "ok" THEN Some(g.val) ELSE None]
       IN Done(getitem(img, key))
    /\ nset' = nset + 1
    /\ UNCHANGED <<img, sink, saved, built, back, twin, lastset, rle>>

\* img.write_io(sink, force_40B_DIB) on an empty sink
WriteIo(force_40B_DIB) ==
    /\ LET Done(w) ==
               /\ img' = w.self
               /\ sink' = w.out
               /\ res' = [NoRes EXCEPT !.op = "write_io", !.err = w.err, !.val = w.ret]
       IN Done(write_io(img, force_40B_DIB))
    /\ saved' = img
    /\ back' = NoLoad
    /\ twin' = NoLoad
    /\ UNCHANGED <<built, nset, lastset, rle>>

\* the file that stores the rows of an uncompressed bottom-up file in
\* top-down order: the height field negated, the rows reversed
TopDown(file) ==
    LET offset == UnpackU32(Slice(file, 10, 14))
        height == UnpackI32(Slice(file, 22, 26))
        padded == (Len(file) - offset) \div height
        rows == [j \in 1..(height * padded) |->
                   file[offset + (height - 1 - ((j - 1) \div padded)) * padded
                          + ((j - 1) % padded) + 1]]
    IN Slice(file, 0, 22) \o Pack32(-height) \o Slice(file, 26, offset) \o rows

\* MicroBMP().read_io(file) on the file img.write_io wrote
ReadBack ==
    /\ res.op = "write_io"
    /\ back.err = "none"
    /\ back' = read_io(MicroBMP, sink)
    /\ UNCHANGED <<img, sink, res, saved, built, nset, twin, lastset, rle>>

\* MicroBMP().read_io(twin file) on the top-down twin of the file written
ReadTwin ==
    /\ res.op = "write_io"
    /\ res.err = "ok"
    /\ back.err # "none"
    /\ twin.err = "none"
    /\ twin' = read_io(MicroBMP, TopDown(sink))
    /\ UNCHANGED <<img, sink, res, saved, built, nset, back, lastset, rle>>

Next ==
    \/ \E width \in 1..MaxW, height \in 1..MaxH, a \in Args :
          New(width, height, a[1], a[2])
    \/ \E k \in Inside(img), v \in Values(img) : SetItem(k, v)
    \/ \E k \in Inside(img) :
          Val(img.DIB_depth) > 8 /\ SetItem(<<k[1], k[2], 2>>, 44)
    \/ \E force_40B_DIB \in BOOLEAN : WriteIo(force_40B_DIB)
    \/ ReadBack
    \/ ReadTwin

Spec == Init /\ [][Next]_vars

----------------------------------------------------------------------------
(* Pixel access at coordinates inside and around the image                 *)
(* (specification SpecPix).                                                *)

NextPix ==
    \/ \E width \in 1..MaxW, height \in 1..MaxH, a \in Args :
          New(width, height, a[1], a[2])
    \/ \E k \in Around, v \in Values(img) : SetItem(k, v)
    \/ \E k \in Around :
          img.initialised /\ Val(img.DIB_depth) > 8 /\ SetItem(<<k[1], k[2], 2>>, 44)
    \/ \E k \in Around : GetItem(k)

SpecPix == Init /\ [][NextPix]_vars

----------------------------------------------------------------------------
(* Loading files that are whole, cut short or carry an unsupported header  *)
(* (specification SpecLoad): the sources are copies of files write_io      *)
(* wrote from constructed images, with one header field patched and the    *)
(* bytes after some position missing.                                      *)

\* file with the bytes at 0-based offset off replaced by bytes
Patch(file, off, bytes) ==
    Slice(file, 0, off) \o bytes \o Slice(file, off + Len(bytes), Len(file))

\* a compressed pixel stream: a run of two pixels from the byte 0x21, an
\* end-of-line record, a run of one pixel, the end-of-bitmap record
SomeRle == <<2, 33, 0, 0, 1, 33, 0, 1>>

\* the copies of a whole file with one header field patched
Patched(file) ==
    { file,
      Patch(file, 0, <<66, 88>>),
      Patch(file, 26, Pack16(2)),
      Patch(file, 28, Pack16(3)),
      Patch(file, 28, Pack16(16)),
      Patch(file, 30, Pack32(1)),
      Patch(file, 30, Pack32(2)),
      Slice(Patch(file, 14, Pack32(44)), 0, 54) \o <<1, 2, 3, 4>>
         \o Slice(file, 54, Len(file)) }
    \cup
    ( IF UnpackU16(Slice(file, 28, 30)) \in {4, 8}
      THEN { Slice(Patch(file, 30, Pack32(IF UnpackU16(Slice(file, 28, 30)) = 8
                                          THEN 1 ELSE 2)),
                   0, UnpackU32(Slice(file, 10, 14))) \o SomeRle }
      ELSE {} )

\* the positions after which a source is cut: in the file header, in the DIB
\* header, in an extension, in the palette, in the pixels
Cuts(source) ==
    {n \in {0, 1, 5, 13, 16, 30, 47, 52, 56, 60} : n < Len(source)}
    \cup {Len(source) - 1, Len(source) - 5, Len(source)}

\* the sources read_io is given for a written file
Sources(file) ==
    IF Len(file) < 54 THEN {file}
    ELSE UNION { {Slice(p, 0, n) : n \in {c \in Cuts(p) : c >= 0}} : p \in Patched(file) }

\* img = MicroBMP(), a new object to load a file into
Fresh ==
    /\ res.op = "write_io"
    /\ built
    /\ img' = MicroBMP
    /\ built' = FALSE
    /\ res' = [NoRes EXCEPT !.op = "fresh"]
    /\ UNCHANGED <<sink, saved, nset, back, twin, lastset, rle>>

\* img.read_io(source), on the object that wrote the file or on a new one;
\* res.val is the source
ReadIo(source) ==
    /\ \/ res.op = "write_io" /\ built
       \/ res.op = "fresh"
    /\ LET Done(r) ==
               /\ img' = r.self
               /\ res' = [NoRes EXCEPT !.op = "read_io", !.err = r.err, !.pos = r.pos,
                                       !.stage = r.stage, !.val = Some(source)]
       IN Done(read_io(img, source))
    /\ built' = FALSE
    /\ saved' = img
    /\ UNCHANGED <<sink, nset, back, twin, lastset, rle>>

NextLoad ==
    \/ \E width \in 1..MaxW, height \in 1..MaxH, a \in Args :
          New(width, height, a[1], a[2])
    \/ \E force_40B_DIB \in BOOLEAN : WriteIo(force_40B_DIB)
    \/ Fresh
    \/ \E source \in Sources(sink) : ReadIo(source)

SpecLoad == Init /\ [][NextLoad]_vars

----------------------------------------------------------------------------
(* _decode_rle as a process, one step per record (specifications SpecRle   *)
(* and FairRle): the decoder is entered at the head of a stream of at most *)
(* MaxRecs records, whole or lacking its last byte, on an image as read_io *)
(* has initialised it for a compressed file.                               *)

\* the image read_io hands to _decode_rle: depth 8 with compression 1, or
\* depth 4 with compression 2
RleImage(width, height, depth) ==
    _init([NewObject(Some(width), Some(height), Some(depth), Some(Pal3))
             EXCEPT !.DIB_comp = IF depth = 8 THEN 1 ELSE 2]).self

\* records of a stream: two encoded runs, end of line, end of bitmap, a
\* delta, an absolute run of three pixels with its padding
Records(depth) ==
    { <<1, 33>>, <<2, 33>>, <<0, 0>>, <<0, 1>>, <<0, 2, 1, 1>>,
      IF depth = 8 THEN <<0, 3, 1, 2, 3, 0>> ELSE <<0, 3, 18, 48>> }

RECURSIVE Streams(_, _)
\* the streams of at most n records
Streams(depth, n) ==
    IF n = 0 THEN {<<>>}
    ELSE LET shorter == Streams(depth, n - 1)
         IN shorter \cup {s \o r : s \in shorter, r \in Records(depth)}

\* a stream without its last byte
CutLast(stream) ==
    IF stream = <<>> THEN stream ELSE SubSeq(stream, 1, Len(stream) - 1)

\* read_io enters _decode_rle on an image and a stream
EnterRle(width, height, depth, stream) ==
    /\ rle.pc = "idle"
    /\ img' = RleImage(width, height, depth)
    /\ rle' = RleStart(RleImage(width, height, depth), stream, 0)
    /\ saved' = RleImage(width, height, depth)
    /\ UNCHANGED <<sink, res, built, nset, back, twin, lastset>>

\* one pass of the loop of _decode_rle; res keeps the position and the
\* cursor the record was read at, its kind and its first two bytes, saved
\* the image before the pass
RlePass ==
    /\ rle.pc = "run"
    /\ \E n \in {RleStep(img, rle)} : img' = n.self /\ rle' = n.f
    /\ res' = [NoRes EXCEPT !.op = "_decode_rle", !.pos = rle.pos,
                            !.key = <<rle.x, rle.y>>, !.stage = RleKind(rle),
                            !.val = Some(Read(rle.data, rle.pos, 2).bytes)]
    /\ saved' = img
    /\ UNCHANGED <<sink, built, nset, back, twin, lastset>>

\* the pass on each kind of record, and on a source that ends within the
\* first two bytes of a record
EncodedRun ==
    /\ RleKind(rle) = "run"
    /\ RlePass

AbsoluteRun ==
    /\ RleKind(rle) = "abs"
    /\ RlePass

EndOfLine ==
    /\ RleKind(rle) = "eol"
    /\ RlePass

EndOfBitmap ==
    /\ RleKind(rle) = "eob"
    /\ RlePass

Delta ==
    /\ RleKind(rle) = "delta"
    /\ RlePass

SourceExhausted ==
    /\ RleKind(rle) = "short"
    /\ RlePass

\* the passes of the loop
RleLoop ==
    \/ EncodedRun
    \/ AbsoluteRun
    \/ EndOfLine
    \/ EndOfBitmap
    \/ Delta
    \/ SourceExhausted

NextRle ==
    \/ \E width \in 1..MaxW, height \in 1..MaxH, depth \in {4, 8} :
          \E stream \in Streams(depth, MaxRecs) :
             \/ EnterRle(width, height, depth, stream)
             \/ EnterRle(width, height, depth, CutLast(stream))
    \/ RleLoop

SpecRle == Init /\ [][NextRle]_vars

\* _decode_rle runs in the thread that called read_io: while its loop has
\* not returned or raised, the next pass is taken
FairRle == SpecRle /\ WF_vars(RleLoop)

----------------------------------------------------------------------------
(* Reading a written file by the format's layout, for the statements       *)
(* about the bytes of a file.                                              *)

\* the fields of the headers of a file
FileOffset(file) == UnpackU32(Slice(file, 10, 14))
FileSize(file) == UnpackU32(Slice(file, 2, 6))
FileDibLen(file) == UnpackU32(Slice(file, 14, 18))
FileWidth(file) == UnpackI32(Slice(file, 18, 22))
FileHeight(file) == UnpackI32(Slice(file, 22, 26))
FileDepth(file) == UnpackU16(Slice(file, 28, 30))
FilePaletteCount(file) == UnpackU32(Slice(file, 46, 50))

\* the least multiple of 4 that is at least ceil(width * depth / 8)
FilePaddedRow(file) ==
    LET bits == FileWidth(file) * FileDepth(file)
        bytes == (bits \div 8) + (IF bits % 8 = 0 THEN 0 ELSE 1)
    IN CHOOSE p \in bytes..(bytes + 3) : p % 4 = 0

\* the colour index stored for pixel (x, y) in an indexed bottom-up file
FileIndex(file, k) ==
    LET depth == FileDepth(file)
        row == FileOffset(file) + (FileHeight(file) - 1 - k[2]) * FilePaddedRow(file)
        byte == file[row + ((k[1] * depth) \div 8) + 1]
        shift == 8 - depth - ((k[1] * depth) % 8)
    IN (byte \div (2 ^ shift)) % (2 ^ depth)

----------------------------------------------------------------------------
(* Statements about the caller's runs (specification Spec).                *)

\* the file in sink was written by a write_io that returned
Written == res.op = "write_io" /\ res.err = "ok"

\* width, height, depth and palette of two objects agree
SameHeader(a, b) ==
    /\ a.DIB_w = b.DIB_w
    /\ a.DIB_h = b.DIB_h
    /\ a.DIB_depth = b.DIB_depth
    /\ a.palette = b.palette

AssignedOutOfRange ==
    /\ Written /\ built
    /\ Val(saved.DIB_depth) <= 8
    /\ lastset.key \in Inside(saved)
    /\ Val(saved.DIB_num_in_plt) > 0
    /\ Val(lastset.value) >= Val(saved.DIB_num_in_plt)

\* C4 as stated: the index stored in the file for a pixel assigned v >= L is
\* v mod L, and every index of the file is below L.
C4_StoredIsValueModL ==
    AssignedOutOfRange =>
        /\ FileIndex(sink, lastset.key)
             = Val(lastset.value) % Val(saved.DIB_num_in_plt)
        /\ \A k \in Inside(saved) : FileIndex(sink, k) < Val(saved.DIB_num_in_plt)

\* C4 as amended: the index stored in the file for a pixel assigned v >= L is
\* (v mod 2^depth) mod L, and every index of the file is below L.
C4_StoredIsMaskedModL ==
    AssignedOutOfRange =>
        /\ FileIndex(sink, lastset.key)
             = (Val(lastset.value) % (2 ^ Val(saved.DIB_depth)))
                 % Val(saved.DIB_num_in_plt)
        /\ \A k \in Inside(saved) : FileIndex(sink, k) < Val(saved.DIB_num_in_plt)

\* a pixel assigned a value v with L <= v < 2^depth was written as v mod L,
\* which is not zero
C4_Witness ==
    /\ AssignedOutOfRange
    /\ Val(lastset.value) < 2 ^ Val(saved.DIB_depth)
    /\ FileIndex(sink, lastset.key) # 0
    /\ FileIndex(sink, lastset.key) # Val(lastset.value)

\* C7: the bottom-up file and its top-down twin load to the same positive
\* height and the same value at every pixel.
C7_RowOrderEquivalence ==
    (twin.err # "none" /\ back.err = "ok") =>
        /\ twin.err = "ok"
        /\ twin.self.DIB_h = back.self.DIB_h
        /\ Val(twin.self.DIB_h) > 0
        /\ twin.self.DIB_w = back.self.DIB_w
        /\ \A k \in Inside(back.self) : getitem(twin.self, k) = getitem(back.self, k)

\* both files of an image whose rows differ were loaded
C7_Witness ==
    /\ twin.err = "ok" /\ back.err = "ok"
    /\ FileHeight(TopDown(sink)) < 0
    /\ \E k \in Inside(twin.self) :
          /\ k[2] + 1 < Val(twin.self.DIB_h)
          /\ getitem(twin.self, k) # getitem(twin.self, <<k[1], k[2] + 1>>)

----------------------------------------------------------------------------
(* Statements about pixel access (specification SpecPix).                  *)

\* the coordinate of key lies outside [0, width) x [0, height)
Outside(self, key) ==
    ~(/\ 0 <= key[1] /\ key[1] < Val(self.DIB_w)
      /\ 0 <= key[2] /\ key[2] < Val(self.DIB_h))

\* C3 as stated: reading or writing a pixel of an initialised image at a
\* coordinate outside [0, width) x [0, height), negative x or y included,
\* fails with an error.
C3_OutOfBoundsFails ==
    (res.op \in {"getitem", "setitem"} /\ img.initialised /\ Outside(img, res.key))
        => res.err # "ok"

----------------------------------------------------------------------------
(* Statements about loading (specification SpecLoad).                      *)

\* the source the latest read_io was given
Source == Val(res.val)

\* the source holds the whole file header and the whole DIB header
HasHeaders(source) ==
    /\ Len(source) >= 54
    /\ Len(source) >= 14 + FileDibLen(source)

FileComp(file) == UnpackU32(Slice(file, 30, 34))

\* the number of palette entries read_io reads for the header of a file
FilePaletteEntries(file) ==
    IF FileDepth(file) > 8 THEN 0
    ELSE IF FilePaletteCount(file) = 0 THEN 2 ^ FileDepth(file)
    ELSE FilePaletteCount(file)

\* the depth is not supported, or the depth + compression pair is not legal
Illegal(depth, comp) ==
    \/ depth \notin {1, 2, 4, 8, 24}
    \/ ~(comp = 0 \/ <<depth, comp>> \in {<<8, 1>>, <<4, 2>>})

\* C2 as stated: after a read_io that failed, the object does not report
\* initialised = TRUE unless the call left it exactly as it was.
C2_NoPartialImage ==
    (res.op = "read_io" /\ res.err # "ok") =>
        (~img.initialised \/ img = saved)

\* the headers of the latest read_io were whole and hold an illegal depth or
\* an illegal depth + compression pair
ReadIllegal ==
    /\ res.op = "read_io"
    /\ HasHeaders(Source)
    /\ Illegal(FileDepth(Source), FileComp(Source))

\* the latest write_io was called on an object whose depth is set and whose
\* other validated header fields are legal
WroteWith(depth_legal) ==
    /\ res.op = "write_io"
    /\ ~IsNone(saved.DIB_w) /\ ~IsNone(saved.DIB_h) /\ ~IsNone(saved.DIB_depth)
    /\ saved.BMP_id = BM /\ saved.DIB_planes_num = 1
    /\ (Val(saved.DIB_depth) \in {1, 2, 4, 8, 24}) = depth_legal

\* C5 as stated: with an illegal depth or pair, construction fails, write_io
\* fails before any byte is written, and read_io fails with the validation
\* error before any byte beyond the headers is read.
C5_FailsBeforeAnyIo ==
    /\ (res.op = "new" /\ Val(res.val) \notin {1, 2, 4, 8, 24})
          => res.err = "AssertionError"
    /\ ReadIllegal =>
          /\ res.err = "AssertionError"
          /\ res.pos = 14 + FileDibLen(Source)
    /\ (WroteWith(FALSE)
         \/ (WroteWith(TRUE) /\ Illegal(Val(saved.DIB_depth), saved.DIB_comp)))
          => (res.err = "AssertionError" /\ sink = <<>>)

\* C5 as amended: with an illegal depth, construction fails and write_io
\* fails before any byte is written, the depth kept as it was; write_io sets
\* the compression to 0 before it validates, so an illegal pair with a legal
\* depth is no validation failure there. read_io with an illegal depth or
\* pair never reads pixel data and never succeeds: for a depth up to 8 it
\* first reads the palette entries, failing with IndexError when the source
\* ends within them, and otherwise fails with the validation error right
\* after the headers and the palette (or at the end of a source that lacks
\* the last byte of the palette), the object holding the depth and the
\* compression as read.
C5_FailsAtInit ==
    /\ (res.op = "new" /\ Val(res.val) \notin {1, 2, 4, 8, 24})
          => res.err = "AssertionError"
    /\ ReadIllegal =>
          /\ res.err # "ok"
          /\ res.stage \in {"palette", "init"}
          /\ res.stage = "palette" =>
                (FileDepth(Source) <= 8 /\ res.err = "IndexError")
          /\ res.stage = "init" =>
                /\ res.err = "AssertionError"
                /\ LET end == 14 + FileDibLen(Source) + 4 * FilePaletteEntries(Source)
                   IN res.pos = IF Len(Source) < end THEN Len(Source) ELSE end
          /\ img.DIB_depth = Some(FileDepth(Source))
          /\ img.DIB_comp = FileComp(Source)
    /\ WroteWith(FALSE) =>
          /\ res.err = "AssertionError"
          /\ sink = <<>>
          /\ img.DIB_depth = saved.DIB_depth
    /\ (WroteWith(TRUE) /\ Illegal(Val(saved.DIB_depth), saved.DIB_comp)) =>
          /\ res.err # "AssertionError"
          /\ img.DIB_comp = 0

\* a source with an illegal depth or pair failed validation after read_io
\* had read its palette entries
C5_Witness ==
    /\ ReadIllegal
    /\ res.stage = "init"
    /\ res.err = "AssertionError"
    /\ res.pos > 14 + FileDibLen(Source)

\* C6 as stated: write_io of an initialised image into an empty sink returns
\* the number of bytes written, which is 14 + DIB_len + 4 * palette count +
\* padded row size * height and is the size field of the file; the offset
\* field is 14 + DIB_len + 4 * palette count; each row ends in zero padding.
C6_EncodedSize ==
    (res.op = "write_io" /\ saved.initialised) =>
        /\ res.err = "ok"
        /\ LET n == 14 + img.DIB_len + 4 * Val(img.DIB_num_in_plt)
               padded == FilePaddedRow(sink)
               used == (Val(img.DIB_w) * Val(img.DIB_depth) + 7) \div 8
           IN /\ Len(sink) = n + padded * Val(img.DIB_h)
              /\ res.val = Some(Len(sink))
              /\ FileSize(sink) = Len(sink)
              /\ FileOffset(sink) = n
              /\ Val(img.padded_row_size) = padded
              /\ \A h \in 0..(Val(img.DIB_h) - 1) :
                    \A j \in (used + 1)..padded : sink[n + h * padded + j] = 0

----------------------------------------------------------------------------
(* Statements about the decoder (specifications SpecRle and FairRle).      *)

\* the record of the latest pass: its first two bytes, the cursor it was
\* read at, the number of pixels it writes
RecBytes == Val(res.val)
RecX == res.key[1]
RecY == res.key[2]
RecPixels ==
    IF res.stage = "run" THEN RecBytes[1]
    ELSE IF res.stage = "abs" THEN RecBytes[2]
    ELSE 0

\* the cursor positions of the pixels of the latest record
RecCursor == {<<RecX + i, RecY>> : i \in 0..(RecPixels - 1)}

\* C8 as stated: a record that would write a pixel at a cursor position
\* outside the plane makes the decode fail, and the pixels of the plane other
\* than those at the record's cursor positions inside the plane keep their
\* values.
C8_OverrunIsFatal ==
    (res.op = "_decode_rle" /\ \E k \in RecCursor : Outside(saved, k)) =>
        /\ rle.pc = "error"
        /\ \A k \in Inside(saved) :
              k \notin RecCursor => getitem(img, k) = getitem(saved, k)

\* the decoder has returned or raised
Stopped == rle.pc \in {"done", "error"}

\* the decoder returned on an end-of-bitmap record, its position right
\* after the record, or raised the error of an exhausted source or of a
\* failed bounds assertion
StoppedAsStated ==
    /\ Stopped
    /\ rle.pc = "done" =>
          /\ RecBytes = <<0, 1>>
          /\ rle.pos = res.pos + 2
          /\ rle.err = "ok"
    /\ rle.pc = "error" => rle.err \in {"IndexError", "AssertionError"}

\* C9: on every stream the decoder, once entered, eventually stops, either by
\* returning on an end-of-bitmap record read at a record boundary, no byte
\* after the record consumed, or by raising an error; it never returns
\* without having read an end-of-bitmap record.
C9_Terminates == (rle.pc = "run") ~> StoppedAsStated

\* the decoder returned on an end-of-bitmap record that more bytes of the
\* stream follow
C9_Witness ==
    /\ rle.pc = "done"
    /\ res.op = "_decode_rle"
    /\ rle.pos < Len(rle.data)

\* the i-th depth-bit field of byte b, counted from the most significant bits
Field(b, depth, i) == (b \div (2 ^ (8 - depth * (i + 1)))) % (2 ^ depth)

\* the latest record was an encoded run that fits the row of its cursor
RunInside ==
    /\ res.op = "_decode_rle"
    /\ res.stage = "run"
    /\ 0 <= RecY /\ RecY < Val(saved.DIB_h)
    /\ 0 <= RecX /\ RecX + RecPixels <= Val(saved.DIB_w)

\* C10: an encoded run (a, b) that fits the row writes pixel i of its a
\* pixels with field i mod pixels-per-byte of b, leaves every other pixel as
\* it was and moves the cursor to (x + a, y); end-of-line and delta records
\* leave the plane as it was and move the cursor only.
C10_EncodedRun ==
    /\ RunInside =>
          /\ rle.pc = "run"
          /\ \A i \in 0..(RecPixels - 1) :
                getitem(img, <<RecX + i, RecY>>) =
                   [err |-> "ok",
                    val |-> Field(RecBytes[2], Val(saved.DIB_depth),
                                  i % (8 \div Val(saved.DIB_depth)))]
          /\ \A k \in Inside(saved) :
                k \notin RecCursor => getitem(img, k) = getitem(saved, k)
          /\ rle.x = RecX + RecPixels
          /\ rle.y = RecY
    /\ (res.op = "_decode_rle" /\ res.stage = "eol") =>
          /\ img = saved
          /\ rle.x = 0
          /\ rle.y = RecY - 1
    /\ (res.op = "_decode_rle" /\ res.stage = "delta" /\ rle.pc = "run") =>
          /\ img = saved
          /\ rle.x = RecX + rle.data[res.pos + 3]
          /\ rle.y = RecY - rle.data[res.pos + 4]

\* an encoded run of two pixels was written into a row of a depth-4 image,
\* the two pixels taking different values
C10_Witness ==
    /\ RunInside
    /\ RecPixels = 2
    /\ Val(saved.DIB_depth) = 4
    /\ getitem(img, <<RecX, RecY>>) # getitem(img, <<RecX + 1, RecY>>)

----------------------------------------------------------------------------
(* Statements about the effect of write_io on the object (specification    *)
(* SpecLoad): saved is the object when the call was entered, img the       *)
(* object and sink the bytes when it returned.                             *)

\* the latest call was a write_io that returned
Wrote == res.op = "write_io" /\ res.err = "ok"

\* the latest write_io may have been called with this flag
CalledWith(force_40B_DIB) ==
    LET Same(w) == w.err = "ok" /\ w.self = img /\ w.out = sink
    IN Same(write_io(saved, force_40B_DIB))

\* the object before the call with the fields write_io may assign taken
\* from the object after it: the compression, the derived sizes and the
\* offset, the plane, and with the flag the DIB length and the extension
Framed(force_40B_DIB) ==
    [saved EXCEPT !.DIB_comp = 0,
                  !.BMP_size = img.BMP_size,
                  !.BMP_offset = img.BMP_offset,
                  !.DIB_raw_size = img.DIB_raw_size,
                  !.row_size = img.row_size,
                  !.padded_row_size = img.padded_row_size,
                  !.parray = img.parray,
                  !.DIB_len = IF force_40B_DIB THEN 40 ELSE @,
                  !.DIB_extra = IF force_40B_DIB THEN None ELSE @]

\* C11: a write_io that returned left width, height, depth and palette as
\* they were; every pixel of an indexed image reads as its value before the
\* call modulo the palette length and every 24-bit pixel as before; apart
\* from the plane, the only fields that changed are the compression, now 0,
\* the recomputed sizes and offset, and with force_40B_DIB the DIB length,
\* now 40, and the extension, dropped; a second write_io with the same flag
\* returns the same bytes and leaves the object as it is.
C11_WriteFrame ==
    Wrote =>
        /\ SameHeader(img, saved)
        /\ \A k \in Inside(saved) :
              getitem(img, k) =
                 IF Val(saved.DIB_depth) <= 8
                 THEN [err |-> "ok",
                       val |-> getitem(saved, k).val % Len(Val(saved.palette))]
                 ELSE getitem(saved, k)
        /\ img.DIB_comp = 0
        /\ \E force_40B_DIB \in BOOLEAN : CalledWith(force_40B_DIB)
        /\ \A force_40B_DIB \in BOOLEAN :
              CalledWith(force_40B_DIB) =>
                  /\ img = Framed(force_40B_DIB)
                  /\ write_io(img, force_40B_DIB) =
                        [err |-> "ok", self |-> img, out |-> sink, ret |-> res.val]

\* what __init__ with arguments and a read_io that returned establish: the
\* object is initialised, has a plane, and has a palette of the recorded
\* length exactly when it is indexed
Consistent(o) ==
    /\ o.initialised
    /\ o.parray # None
    /\ IF Val(o.DIB_depth) <= 8
       THEN o.palette # None /\ o.DIB_num_in_plt = Some(Len(Val(o.palette)))
       ELSE o.palette = None

\* the objects for which write_io has the effect stated above: __init__ with
\* arguments and a read_io that returned give a consistent object, a write_io
\* that returned keeps it consistent, and on a consistent object the
\* statement holds; the objects left are those a read_io that raised had
\* partly assigned
WriteFrameWhenConsistent ==
    /\ (res.err = "ok" /\ (res.op = "read_io" \/ (res.op = "new" /\ built)))
          => Consistent(img)
    /\ (Wrote /\ Consistent(saved)) => Consistent(img) /\ C11_WriteFrame

\* write_io returned on an object that a read_io that raised had left
\* without palette and plane, and gave it both
WroteAfterFailedLoad ==
    /\ Wrote
    /\ ~Consistent(saved)
    /\ img.palette # saved.palette

====
